---- MODULE Spec2Model ----
(***************************************************************************)
(* MACOL: decentralised contextual multi-armed-bandit association.         *)
(* Two programs implement the controller: CLMAB (test-macol.py, driven by  *)
(* MyScenario.on_event) and MACOLSolution (toy-example/main.py, driven by  *)
(* the simulation loop).  The variable algo says which program a behaviour *)
(* runs.  Names follow test-macol.py; the toy's serving_vehicle,           *)
(* associated_bs and serving_inter_free are serving_node,                  *)
(* associated_sector and serving_interference_free here.                   *)
(*                                                                         *)
(* Reals are exact rationals <<n, d>> in lowest terms with d > 0 (the      *)
(* programs compute in floats; rounding is modelled in SpecFloat only,     *)
(* where the tables hold the binary64 values themselves).  Probabilities   *)
(* are in hundredths.  A context "[010]" is the sequence <<0, 1, 0>> of    *)
(* its digits.  None is 0 for object references.                           *)
(*                                                                         *)
(* The road is a few cells, each in range of some sectors; between two     *)
(* epochs a vehicle may move to any cell.  A vehicle that ends its path    *)
(* and is replaced (do_restart_node, Vehicle.reset) is modelled as one     *)
(* that moves out of every range and comes back.  One step of a behaviour  *)
(* is one epoch: the caller's bookkeeping and one whole call of execute.   *)
(*                                                                         *)
(* Spec runs the simulators; SpecAdvancing runs them with every epoch one  *)
(* step later than the one before, and fairly; SpecAnyClock calls execute  *)
(* at arbitrary times; SpecStore and SpecTimer call update_reward and      *)
(* backoff directly,                                                       *)
(* as any caller of the objects may; SpecFloat calls update_reward         *)
(* directly and computes as Python's float does.                           *)
(***************************************************************************)
EXTENDS Integers, Sequences, FiniteSets, TLC

\* ---------------------------------------------------------------- bounds
\* Number of epochs (calls of execute) a behaviour runs.
MaxEpochs == 4
\* Number of epochs a behaviour with an arbitrary clock runs.
AnyClockEpochs == 3
\* End of the explore-first window, in mobility steps.
exploration_time == 2
\* Mobility steps per second of simulated time in the pymosim scenario.
StepsPerSecond == 2
\* Number of calls a behaviour of direct calls makes.
MaxCalls == 3

\* ------------------------------------------------------ program constants
epsilon == 5
FullExploration == 100

None == 0
NoContext == <<2>>

\* The sector list in list order, and the vehicle list in list order.
all_sectors == <<1, 2, 3>>
all_vehicles == <<1, 2>>
Sectors == {all_sectors[i] : i \in DOMAIN all_sectors}
Vehicles == {all_vehicles[i] : i \in DOMAIN all_vehicles}

\* The sector whose service times CLMAB collects ("BS-1.0"): the middle one.
conn_info_sector == 2

\* MyScenario's hand-made neighbour table, cut down to three sectors.
neighbouring_sector == <<(<<2>>), (<<3, 1>>), (<<2>>)>>

\* The road in cells: cell 0 is out of every sector's range, and cell c > 0
\* is within range of the sectors coverage[c].
coverage == <<{1, 2}, {2, 3}>>
Cells == 0..Len(coverage)

\* What random.random() can return, in hundredths: just below epsilon, and
\* exactly epsilon (every larger draw decides as this one does).
Draws == {4, 5}
\* What random.choice can pick: an index into the detection list.
Choices == 0..(Len(all_vehicles) - 1)

\* -------------------------------------------------------------- rationals
Abs(x) == IF x < 0 THEN 0 - x ELSE x

RECURSIVE GCD(_, _)
GCD(a, b) == IF b = 0 THEN a ELSE GCD(b, a % b)

\* n / d in lowest terms, d # 0.
Rat(n, d) ==
    LET g == GCD(Abs(n), Abs(d))
        sgn == IF d < 0 THEN 0 - 1 ELSE 1
    IN  <<(sgn * n) \div g, (sgn * d) \div g>>

Zero == <<0, 1>>
RatInt(k) == <<k, 1>>
RatAdd(x, y) == Rat(x[1] * y[2] + y[1] * x[2], x[2] * y[2])
RatMulInt(x, k) == Rat(x[1] * k, x[2])
RatDivInt(x, k) == Rat(x[1], x[2] * k)
RatLess(x, y) == x[1] * y[2] < y[1] * x[2]

\* ------------------------------------------------------------------ state
VARIABLES
    algo,                       \* "CLMAB" or "MACOL"
    sim_time,                   \* sim_time / sim_tick of the latest epoch
    epochs,                     \* number of epochs run so far
    location,                   \* vehicle -> the road cell it is in
    serving_node,               \* sector -> vehicle or None
    associated_sector,          \* vehicle -> sector or None
    serving_duration,           \* sector -> duration of this connection
    serving_interference_free,  \* sector -> interference-free part of it
    total_serving_duration,     \* sector -> sum over ended connections (toy)
    total_serving_count,        \* sector -> number of ended connections (toy)
    has_interference,           \* vehicle -> interfered (CLMAB)
    signal_count,               \* vehicle -> transmissions received (toy)
    MAB_context,                \* sector -> context at association
    MAB_backoff,                \* sector -> <<start_time, duration>>
    q_value,                    \* sector -> (context -> mean reward)
    q_count,                    \* sector -> (context -> sample count)
    exploration_rate,           \* in hundredths
    is_exploration_over,        \* CLMAB's flag
    is_full_exploration,        \* MACOLSolution's flag
    conn_info,                  \* sector -> connections collected (CLMAB)
    error,                      \* "none" or the exception that ended the run
    hist_duration,              \* sector -> summed durations of ended connections
    hist_count,                 \* sector -> number of ended connections
    hist_nonzero,               \* sector -> those of a duration other than 0
    monotone,                   \* every epoch so far had sim_time >= the last
    lost_list,                  \* this epoch's sector_lost_list
    updates,                    \* this epoch's update_reward calls
    decision                    \* this epoch's Pass 2 trace, per sector

vars == <<algo, sim_time, epochs, location, serving_node, associated_sector,
          serving_duration, serving_interference_free,
          total_serving_duration, total_serving_count, has_interference,
          signal_count, MAB_context, MAB_backoff, q_value, q_count,
          exploration_rate, is_exploration_over, is_full_exploration,
          conn_info, error, hist_duration, hist_count, hist_nonzero, monotone,
          lost_list,
          updates, decision>>

\* The program state as one record, for the loops of execute.
State ==
    [algo |-> algo, location |-> location, serving_node |-> serving_node,
     associated_sector |-> associated_sector,
     serving_duration |-> serving_duration,
     serving_interference_free |-> serving_interference_free,
     total_serving_duration |-> total_serving_duration,
     total_serving_count |-> total_serving_count,
     has_interference |-> has_interference, signal_count |-> signal_count,
     MAB_context |-> MAB_context, MAB_backoff |-> MAB_backoff,
     q_value |-> q_value, q_count |-> q_count,
     exploration_rate |-> exploration_rate,
     is_exploration_over |-> is_exploration_over,
     is_full_exploration |-> is_full_exploration, conn_info |-> conn_info,
     error |-> error,
     hist_duration |-> hist_duration, hist_count |-> hist_count,
     hist_nonzero |-> hist_nonzero,
     lost_list |-> lost_list, updates |-> updates, decision |-> decision]

NoDecision ==
    [verdict |-> "none", vehicle |-> None, context |-> NoContext,
     explore |-> FALSE, occupied |-> {}]

\* ------------------------------------------------------------ the sectors
\* MySector.neighbour_list; the toy takes every other BS of bs_list, in order.
neighbour_list(alg, a) ==
    IF alg = "CLMAB" THEN neighbouring_sector[a]
    ELSE SelectSeq(all_sectors, LAMBDA n : n # a)

\* Seconds are StepsPerSecond mobility steps in the scenario; the toy counts ticks.
TimeUnit(alg) == IF alg = "CLMAB" THEN StepsPerSecond ELSE 1

\* BaseStation.can_reach; in pymosim, the vehicle is among the replies to
\* the sector's beacon (and its reply reaches the sector).
can_reach(s, a, v) ==
    s.location[v] # 0 /\ a \in coverage[s.location[v]]

\* Fault: the counters of the connection before are carried over.
associate_vehicle_keep_counters(s, a, v) ==
    [s EXCEPT !.serving_node[a] = v,
              !.associated_sector[v] = a]

associate_vehicle(s, a, v) ==
    [s EXCEPT !.serving_node[a] = v,
              !.associated_sector[v] = a,
              !.serving_duration[a] = 0,
              !.serving_interference_free[a] = 0]

lost_vehicle(s, a) ==
    LET v == s.serving_node[a]
        t == IF s.algo = "MACOL"
             THEN [s EXCEPT !.total_serving_duration[a] = @ + s.serving_duration[a],
                            !.total_serving_count[a] = @ + 1]
             ELSE s
    IN  [t EXCEPT !.associated_sector[v] = None,
                  !.serving_node[a] = None,
                  !.hist_duration[a] = @ + s.serving_duration[a],
                  !.hist_count[a] = @ + 1,
                  !.hist_nonzero[a] = IF s.serving_duration[a] = 0 THEN @ ELSE @ + 1]

\* total_serving_duration / total_serving_count; the caller checks the count.
get_average_serving_duration(s, a) ==
    Rat(s.total_serving_duration[a], s.total_serving_count[a])

\* Fault: the new duration is added to the one the timer had.
backoff_stacking(s, a, start_time, duration) ==
    [s EXCEPT !.MAB_backoff[a] = <<start_time, RatAdd(@[2], duration)>>]

backoff(s, a, start_time, duration) ==
    [s EXCEPT !.MAB_backoff[a] = <<start_time, duration>>]

\* Fault: the timer is never found active.
is_backoff_never(s, a, check_time) == FALSE

\* Fault: the timer is still active when the elapsed time equals the duration.
is_backoff_inclusive(s, a, check_time) ==
    LET start_time == s.MAB_backoff[a][1]
        duration == s.MAB_backoff[a][2]
    IN  ~RatLess(duration, <<check_time - start_time, TimeUnit(s.algo)>>)

is_backoff(s, a, check_time) ==
    LET start_time == s.MAB_backoff[a][1]
        duration == s.MAB_backoff[a][2]
    IN  RatLess(<<check_time - start_time, TimeUnit(s.algo)>>, duration)

\* ---------------------------------------------------------- the algorithm
\* Fault: the context is taken from the occupancy before the drops.
get_current_context_predrop(s, a) ==
    LET nb == neighbour_list(s.algo, a)
    IN  [i \in DOMAIN nb |->
           IF \/ s.serving_node[nb[i]] # None
              \/ \E j \in DOMAIN s.lost_list : s.lost_list[j][1] = nb[i]
           THEN 1 ELSE 0]

\* Fault: the digits are in the reverse of the neighbour order.
get_current_context_reversed(s, a) ==
    LET nb == neighbour_list(s.algo, a)
    IN  [i \in DOMAIN nb |->
           IF s.serving_node[nb[Len(nb) + 1 - i]] # None THEN 1 ELSE 0]

get_current_context(s, a) ==
    LET nb == neighbour_list(s.algo, a)
    IN  [i \in DOMAIN nb |-> IF s.serving_node[nb[i]] # None THEN 1 ELSE 0]

RECURSIVE SumValues(_, _)
SumValues(f, keys) ==
    IF keys = {} THEN Zero
    ELSE LET c == CHOOSE x \in keys : TRUE
         IN  RatAdd(f[c], SumValues(f, keys \ {c}))

RECURSIVE SumWeighted(_, _, _)
SumWeighted(f, w, keys) ==
    IF keys = {} THEN Zero
    ELSE LET c == CHOOSE x \in keys : TRUE
         IN  RatAdd(RatMulInt(f[c], w[c]), SumWeighted(f, w, keys \ {c}))

RECURSIVE SumCounts(_, _)
SumCounts(w, keys) ==
    IF keys = {} THEN 0
    ELSE LET c == CHOOSE x \in keys : TRUE
         IN  w[c] + SumCounts(w, keys \ {c})

\* Fault: the threshold is the mean of all rewards, each context weighted by
\* its sample count.
get_threshold_pooled(s, a) ==
    LET table == s.q_value[a]
    IN  IF Cardinality(DOMAIN table) = 0 THEN Zero
        ELSE RatDivInt(SumWeighted(table, s.q_count[a], DOMAIN table),
                       SumCounts(s.q_count[a], DOMAIN table))

get_threshold(s, a) ==
    LET table == s.q_value[a]
    IN  IF Cardinality(DOMAIN table) = 0 THEN Zero
        ELSE RatDivInt(SumValues(table, DOMAIN table), Cardinality(DOMAIN table))

\* Fault: one table is shared by all sectors.
update_reward_shared(s, a, context, reward) ==
    LET old_value == IF context \in DOMAIN s.q_value[a] THEN s.q_value[a][context] ELSE Zero
        old_count == IF context \in DOMAIN s.q_count[a] THEN s.q_count[a][context] ELSE 0
        value == RatAdd(RatMulInt(old_value, old_count), reward)
        count == old_count + 1
    IN  [s EXCEPT !.q_value = [b \in Sectors |-> (context :> RatDivInt(value, count)) @@ s.q_value[b]],
                  !.q_count = [b \in Sectors |-> (context :> count) @@ s.q_count[b]],
                  !.updates = Append(@, <<a, context, reward>>)]

\* Fault: the new mean is the average of the old mean and the reward.
update_reward_halving(s, a, context, reward) ==
    LET old_value == IF context \in DOMAIN s.q_value[a] THEN s.q_value[a][context] ELSE Zero
        old_count == IF context \in DOMAIN s.q_count[a] THEN s.q_count[a][context] ELSE 0
    IN  [s EXCEPT !.q_value[a] = (context :> RatDivInt(RatAdd(old_value, reward), 2)) @@ @,
                  !.q_count[a] = (context :> old_count + 1) @@ @,
                  !.updates = Append(@, <<a, context, reward>>)]

update_reward(s, a, context, reward) ==
    LET old_value == IF context \in DOMAIN s.q_value[a] THEN s.q_value[a][context] ELSE Zero
        old_count == IF context \in DOMAIN s.q_count[a] THEN s.q_count[a][context] ELSE 0
        value == RatAdd(RatMulInt(old_value, old_count), reward)
        count == old_count + 1
    IN  [s EXCEPT !.q_value[a] = (context :> RatDivInt(value, count)) @@ @,
                  !.q_count[a] = (context :> count) @@ @,
                  !.updates = Append(@, <<a, context, reward>>)]

\* Fault: a context without an entry reads as the sector's threshold.
get_reward_default_threshold(s, a, context) ==
    IF context \notin DOMAIN s.q_value[a] THEN get_threshold(s, a)
    ELSE s.q_value[a][context]

get_reward(s, a, context) ==
    IF context \notin DOMAIN s.q_value[a] THEN Zero ELSE s.q_value[a][context]

\* "exploration or exploitation": the rate the epoch at sim_time t uses.
update_exploration(s, t) ==
    IF s.algo = "CLMAB"
    THEN IF t < exploration_time
         THEN [s EXCEPT !.exploration_rate = FullExploration]
         ELSE [s EXCEPT !.is_exploration_over = TRUE,
                        !.exploration_rate = epsilon]
    ELSE IF s.is_full_exploration /\ t > exploration_time
         THEN [s EXCEPT !.is_full_exploration = FALSE,
                        !.exploration_rate = epsilon]
         ELSE s

\* Fault: a client the environment no longer reports is kept.
check_association_keeping_removed(s, a) ==
    LET v == s.serving_node[a]
    IN  IF v # None /\ s.location[v] # 0 /\ ~can_reach(s, a, v)
        THEN [lost_vehicle(s, a) EXCEPT !.lost_list = Append(@, <<a, v>>)]
        ELSE s

\* "check and update current association", for one sector of the loop.
check_association(s, a) ==
    LET v == s.serving_node[a]
    IN  IF v # None /\ ~can_reach(s, a, v)
        THEN [lost_vehicle(s, a) EXCEPT !.lost_list = Append(@, <<a, v>>)]
        ELSE s

\* The reward of an ended connection, as each program computes it.
the_reward(s, a) ==
    IF s.algo = "CLMAB"
    THEN Rat(s.serving_interference_free[a], s.serving_duration[a])
    ELSE RatInt(s.serving_interference_free[a])

\* CLMAB's collection of the service time of one beam, once the exploration
\* is over (the displacement it also stores is not modelled).
collect_conn_info(s, a) ==
    IF s.algo = "CLMAB" /\ s.is_exploration_over /\ a = conn_info_sector
    THEN [s EXCEPT !.conn_info[a] =
             Append(@, <<s.serving_interference_free[a], s.serving_duration[a]>>)]
    ELSE s

\* Fault: a connection of duration 0 is rewarded with 0.
reward_lost_recording(s, a) ==
    IF s.algo = "CLMAB" /\ s.serving_duration[a] = 0
    THEN update_reward(s, a, s.MAB_context[a], Zero)
    ELSE collect_conn_info(
            update_reward(s, a, s.MAB_context[a], the_reward(s, a)), a)

\* Fault: the reward is stored only once the exploration is over.
reward_lost_after_exploration(s, a) ==
    IF s.algo = "CLMAB" /\ s.serving_duration[a] = 0 THEN s
    ELSE IF s.algo = "CLMAB" /\ ~s.is_exploration_over THEN s
    ELSE collect_conn_info(
            update_reward(s, a, s.MAB_context[a], the_reward(s, a)), a)

\* Fault: the reward is filed under the context of the occupancy at the drop.
reward_lost_recomputed(s, a) ==
    IF s.algo = "CLMAB" /\ s.serving_duration[a] = 0 THEN s
    ELSE collect_conn_info(
            update_reward(s, a, get_current_context(s, a), the_reward(s, a)), a)

\* "connection just lost, so update reward", for one entry of the lost list.
reward_lost(s, a) ==
    IF s.algo = "CLMAB" /\ s.serving_duration[a] = 0 THEN s
    ELSE collect_conn_info(
            update_reward(s, a, s.MAB_context[a], the_reward(s, a)), a)

\* Fault: associated vehicles are not skipped.
detection_list_all(s, a) ==
    SelectSeq(all_vehicles, LAMBDA v : can_reach(s, a, v))

\* Steps 1-3: the unassociated vehicles the sector reaches, in list order.
detection_list(s, a) ==
    SelectSeq(all_vehicles,
              LAMBDA v : s.associated_sector[v] = None /\ can_reach(s, a, v))

\* Fault: a reward equal to the threshold serves.
to_serve_at_least(this_reward, this_threshold) ==
    this_reward = Zero \/ ~RatLess(this_reward, this_threshold)

\* Fault: a reward of 0, an unseen context's included, is compared too.
to_serve_above_only(this_reward, this_threshold) ==
    RatLess(this_threshold, this_reward)

\* The exploit branch's verdict.
to_serve(this_reward, this_threshold) ==
    this_reward = Zero \/ RatLess(this_threshold, this_reward)

\* "serve or backoff?", the backoff arm: the duration each program passes.
do_backoff(s, a, t, this_threshold) ==
    IF s.algo = "CLMAB" THEN backoff(s, a, t, this_threshold)
    ELSE IF s.total_serving_count[a] = 0
         THEN [s EXCEPT !.error = "ZeroDivisionError"]
         ELSE backoff(s, a, t, get_average_serving_duration(s, a))

\* Fault: the context of the decision is not stored.
do_serve_without_context(s, a, v, this_context) == associate_vehicle(s, a, v)

\* "serve or backoff?", the serve arm.
do_serve(s, a, v, this_context) ==
    [associate_vehicle(s, a, v) EXCEPT !.MAB_context[a] = this_context]

\* Fault: reading an unseen context enters it in the table, as a table with
\* a default value would.
exploit_reads_inserting(s, a, context) ==
    IF context \in DOMAIN s.q_value[a] THEN s
    ELSE [s EXCEPT !.q_value[a] = (context :> Zero) @@ @,
                   !.q_count[a] = (context :> 0) @@ @]

\* The state after get_reward and get_threshold have run in the exploit
\* branch: the membership test and the sum write nothing.
exploit_reads(s, a, context) == s

\* Fault: the draw is compared with epsilon whatever the rate.
exploring_below_epsilon(s, u) == u < epsilon

\* "exploration or exploitation?": random.random() has returned u.
exploring(s, u) == u < s.exploration_rate

\* "check for new association", for one sector of the loop; k is what
\* random.choice draws and u what random.random() returns.
new_association(s, a, t, k, u) ==
    IF s.error # "none" THEN s
    ELSE IF s.serving_node[a] # None THEN s
    ELSE IF is_backoff(s, a, t)
         THEN [s EXCEPT !.decision =
                 [b \in Sectors |->
                    IF b = a THEN [NoDecision EXCEPT !.verdict = "in_backoff"]
                    ELSE s.decision[b]]]
    ELSE LET list == detection_list(s, a)
         IN  IF Len(list) = 0 THEN s
             ELSE LET v == list[(k % Len(list)) + 1]
                      this_context == get_current_context(s, a)
                      explore == exploring(s, u)
                      this_reward == get_reward(s, a, this_context)
                      this_threshold == get_threshold(s, a)
                      serve == explore \/ to_serve(this_reward, this_threshold)
                      log == [verdict |-> IF serve THEN "serve" ELSE "backoff",
                              vehicle |-> v, context |-> this_context,
                              explore |-> explore,
                              occupied |-> {n \in Sectors : s.serving_node[n] # None}]
                      r == IF explore THEN s ELSE exploit_reads(s, a, this_context)
                      d == [r EXCEPT !.decision =
                              [b \in Sectors |-> IF b = a THEN log ELSE s.decision[b]]]
                  IN  IF serve THEN do_serve(d, a, v, this_context)
                      ELSE do_backoff(d, a, t, this_threshold)

RECURSIVE Pass1(_, _, _)
Pass1(s, order, i) ==
    IF i > Len(order) THEN s
    ELSE Pass1(check_association(s, order[i]), order, i + 1)

RECURSIVE RewardPass(_, _)
RewardPass(s, i) ==
    IF i > Len(s.lost_list) THEN s
    ELSE RewardPass(reward_lost(s, s.lost_list[i][1]), i + 1)

RECURSIVE Pass2(_, _, _, _, _, _)
Pass2(s, order, i, t, choice, draw) ==
    IF i > Len(order) THEN s
    ELSE Pass2(new_association(s, order[i], t, choice[order[i]], draw[order[i]]),
               order, i + 1, t, choice, draw)

\* Fault: one loop drops a client and at once files its reward, under the
\* context of the occupancy at that moment.
RECURSIVE drop_and_reward(_, _, _)
drop_and_reward(s, order, i) ==
    IF i > Len(order) THEN s
    ELSE LET d == check_association(s, order[i])
         IN  drop_and_reward(IF Len(d.lost_list) > Len(s.lost_list)
                             THEN reward_lost_recomputed(d, order[i]) ELSE d,
                             order, i + 1)

first_loops_interleaved(s, t, order) ==
    LET fresh == [s EXCEPT !.lost_list = <<>>, !.updates = <<>>,
                           !.decision = [a \in Sectors |-> NoDecision]]
    IN  drop_and_reward(update_exploration(fresh, t), order, 1)

\* execute up to its second loop: the exploration rate, the loop that drops
\* unreachable clients and the loop that rewards the dropped connections.
\* The first loop takes the sectors in the given order.
first_loops_in_order(s, t, order) ==
    LET fresh == [s EXCEPT !.lost_list = <<>>, !.updates = <<>>,
                           !.decision = [a \in Sectors |-> NoDecision]]
        rated == update_exploration(fresh, t)
        dropped == Pass1(rated, order, 1)
    IN  RewardPass(dropped, 1)

\* execute takes them in list order.
first_loops(s, t) == first_loops_in_order(s, t, all_sectors)

\* CLMAB.execute / MACOLSolution.execute at sim_time t, the second loop
\* taking the sectors in the given order.
execute_in_order(s, t, order, choice, draw) ==
    Pass2(first_loops(s, t), order, 1, t, choice, draw)

\* Fault: the second loop takes the sectors in reverse.
pass_order_reversed == [i \in DOMAIN all_sectors |-> all_sectors[Len(all_sectors) + 1 - i]]

\* The order in which the second loop takes the sectors.
pass_order == all_sectors

execute(s, t, choice, draw) == execute_in_order(s, t, pass_order, choice, draw)

\* The draws that matter to one sector's step of the second loop: none when
\* the sector is skipped or detects no vehicle.
Options(s, a, t) ==
    IF \/ s.error # "none"
       \/ s.serving_node[a] # None
       \/ is_backoff(s, a, t)
       \/ Len(detection_list(s, a)) = 0
    THEN {<<0, 0>>}
    ELSE (0..(Len(detection_list(s, a)) - 1)) \X Draws

\* ------------------------------------------------------------ the drivers
\* do_mobility's statistics loop: the time since the last event is added to
\* the connection of every serving sector.
\* Fault: the two counters are swapped, the time under interference going
\* to the interference-free one only.
collect_stats_swapped(s, duration) ==
    [s EXCEPT
       !.serving_interference_free =
           [a \in Sectors |->
              IF s.serving_node[a] # None
              THEN s.serving_interference_free[a] + duration
              ELSE s.serving_interference_free[a]],
       !.serving_duration =
           [a \in Sectors |->
              IF s.serving_node[a] # None /\ ~s.has_interference[s.serving_node[a]]
              THEN s.serving_duration[a] + duration
              ELSE s.serving_duration[a]]]

collect_stats(s, duration) ==
    [s EXCEPT
       !.serving_duration =
           [a \in Sectors |-> IF s.serving_node[a] # None THEN @[a] + duration ELSE @[a]],
       !.serving_interference_free =
           [a \in Sectors |->
              IF s.serving_node[a] # None /\ ~s.has_interference[s.serving_node[a]]
              THEN @[a] + duration ELSE @[a]]]

\* do_mobility's interference loop: another active beam covers the vehicle.
check_interference(s) ==
    [s EXCEPT !.has_interference =
       [v \in Vehicles |->
          IF s.associated_sector[v] = None THEN @[v]
          ELSE \E beam \in Sectors :
                  /\ s.serving_node[beam] # None
                  /\ beam # s.associated_sector[v]
                  /\ can_reach(s, beam, v)]]

\* The toy's "check for interference" loop.
count_signals(s) ==
    [s EXCEPT !.signal_count =
       [v \in Vehicles |->
          IF s.associated_sector[v] = None THEN @[v]
          ELSE Cardinality({bs \in Sectors :
                              s.serving_node[bs] # None /\ can_reach(s, bs, v)})]]

\* The toy's "calculate connection duration" loop.
count_durations(s) ==
    [s EXCEPT
       !.serving_duration =
           [a \in Sectors |-> IF s.serving_node[a] # None THEN @[a] + 1 ELSE @[a]],
       !.serving_interference_free =
           [a \in Sectors |->
              IF s.serving_node[a] # None /\ s.signal_count[s.serving_node[a]] = 1
              THEN @[a] + 1 ELSE @[a]]]

\* MyScenario.do_mobility after the beam selection has run: the interference
\* loop on the state e that execute has left.
do_mobility(e) == check_interference(e)

\* The toy's simulation loop after algo.execute has run: the interference
\* and duration loops on the state e that execute has left.
simulation_loop(e) ==
    IF e.error # "none" THEN e ELSE count_durations(count_signals(e))

Install(s, t) ==
    /\ algo' = algo
    /\ sim_time' = t
    /\ epochs' = epochs + 1
    /\ location' = s.location
    /\ serving_node' = s.serving_node
    /\ associated_sector' = s.associated_sector
    /\ serving_duration' = s.serving_duration
    /\ serving_interference_free' = s.serving_interference_free
    /\ total_serving_duration' = s.total_serving_duration
    /\ total_serving_count' = s.total_serving_count
    /\ has_interference' = s.has_interference
    /\ signal_count' = s.signal_count
    /\ MAB_context' = s.MAB_context
    /\ MAB_backoff' = s.MAB_backoff
    /\ q_value' = s.q_value
    /\ q_count' = s.q_count
    /\ exploration_rate' = s.exploration_rate
    /\ is_exploration_over' = s.is_exploration_over
    /\ is_full_exploration' = s.is_full_exploration
    /\ conn_info' = s.conn_info
    /\ error' = s.error
    /\ hist_duration' = s.hist_duration
    /\ hist_count' = s.hist_count
    /\ hist_nonzero' = s.hist_nonzero
    /\ lost_list' = s.lost_list
    /\ updates' = s.updates
    /\ decision' = s.decision
    /\ monotone' = (monotone /\ t >= sim_time)

Init ==
    /\ algo \in {"CLMAB", "MACOL"}
    /\ sim_time = 0
    /\ epochs = 0
    /\ location = [v \in Vehicles |-> 0]
    /\ serving_node = [a \in Sectors |-> None]
    /\ associated_sector = [v \in Vehicles |-> None]
    /\ serving_duration = [a \in Sectors |-> 0]
    /\ serving_interference_free = [a \in Sectors |-> 0]
    /\ total_serving_duration = [a \in Sectors |-> 0]
    /\ total_serving_count = [a \in Sectors |-> 0]
    /\ has_interference = [v \in Vehicles |-> FALSE]
    /\ signal_count = [v \in Vehicles |-> 0]
    /\ MAB_context = [a \in Sectors |-> NoContext]
    /\ MAB_backoff = [a \in Sectors |-> <<0, Zero>>]
    /\ q_value = [a \in Sectors |-> <<>>]
    /\ q_count = [a \in Sectors |-> <<>>]
    /\ exploration_rate = FullExploration
    /\ is_exploration_over = FALSE
    /\ is_full_exploration = TRUE
    /\ conn_info = [a \in Sectors |-> <<>>]
    /\ error = "none"
    /\ hist_duration = [a \in Sectors |-> 0]
    /\ hist_count = [a \in Sectors |-> 0]
    /\ hist_nonzero = [a \in Sectors |-> 0]
    /\ monotone = TRUE
    /\ lost_list = <<>>
    /\ updates = <<>>
    /\ decision = [a \in Sectors |-> NoDecision]

\* Every position the vehicles may have moved to since the epoch before.
Moves == [Vehicles -> Cells]

\* What the caller does once execute has returned.
after_execute(e) ==
    IF e.algo = "CLMAB" THEN do_mobility(e) ELSE simulation_loop(e)

\* MyScenario.do_restart_node: the vehicle that has reached the end of its
\* path is removed and a new MyVehicle of the same id starts at the other
\* end; sectors keep whatever serving_node they hold.
do_restart_node(s, v) ==
    [s EXCEPT !.associated_sector[v] = None,
              !.has_interference[v] = FALSE]

\* Vehicle.reset, which Vehicle.update calls once the vehicle is off-screen.
reset(s, v) ==
    [s EXCEPT !.associated_sector[v] = None,
              !.signal_count[v] = 0]

\* Fault: any vehicle may be renewed, a served one in range included.
Renewals_anywhere(e) ==
    IF e.algo = "CLMAB"
    THEN {{}} \cup {{v} : v \in Vehicles}
    ELSE SUBSET Vehicles

\* The vehicles the environment may renew at the end of an epoch. Both ends
\* of a path, and the screen's edges, are out of every sector's range (cell
\* 0). on_event restarts the one node of a MOBILITY_END event and none on
\* SIM_MOBILITY; the toy's loop updates every vehicle, and a vehicle moves 4
\* pixels a tick at most, so that it has been out of range at the execute
\* before its reset.
Renewals(e) ==
    IF e.algo = "CLMAB"
    THEN {{}} \cup {{v} : v \in {w \in Vehicles : e.location[w] = 0}}
    ELSE SUBSET {w \in Vehicles : e.location[w] = 0}

\* do_restart_node, or the reset of update, for the vehicles of R.
RECURSIVE renew(_, _, _)
renew(e, R, i) ==
    IF i > Len(all_vehicles) THEN e
    ELSE LET v == all_vehicles[i]
         IN  renew(IF v \notin R THEN e
                   ELSE IF e.algo = "CLMAB" THEN do_restart_node(e, v)
                   ELSE reset(e, v),
                   R, i + 1)

\* The second loop of execute from its i-th sector on, one draw of
\* random.choice and random.random() per sector that needs them, and then
\* the rest of the caller.
RECURSIVE SecondLoop(_, _, _)
SecondLoop(s, i, t) ==
    IF i > Len(pass_order)
    THEN \E e \in {after_execute(s)} :
            \E R \in Renewals(e) :
               \E r \in {renew(e, R, 1)} : Install(r, t)
    ELSE \E x \in Options(s, pass_order[i], t) :
            \E n \in {new_association(s, pass_order[i], t, x[1], x[2])} :
               SecondLoop(n, i + 1, t)

\* The mobility engine has moved the vehicles and raises SIM_MOBILITY or
\* MOBILITY_END at time t: MyScenario.on_event.
OnEvent(t) ==
    /\ algo = "CLMAB"
    /\ error = "none"
    /\ epochs < MaxEpochs
    /\ \E new_location \in Moves :
          \E moved \in {[State EXCEPT !.location = new_location]} :
             \E counted \in {collect_stats(moved, t - sim_time)} :
                \E s \in {first_loops(counted, t)} : SecondLoop(s, 1, t)

\* One iteration of the toy's simulation loop at tick t, taken from the
\* vehicle.update() calls that end the iteration before (the vehicles' start
\* delay is not modelled: they may be in range from the first tick on).
LoopIteration(t) ==
    /\ algo = "MACOL"
    /\ error = "none"
    /\ epochs < MaxEpochs
    /\ \E new_location \in Moves :
          \E moved \in {[State EXCEPT !.location = new_location]} :
             \E s \in {first_loops(moved, t)} : SecondLoop(s, 1, t)

\* The simulators' clocks: pymosim delivers events at non-decreasing times,
\* the toy adds one to sim_tick per iteration.
Next ==
    \/ \E t \in sim_time..(sim_time + 1) : OnEvent(t)
    \/ LoopIteration(sim_time + 1)

Spec == Init /\ [][Next]_vars

\* Strictly advancing epoch times: one mobility step, one tick per epoch.
NextAdvancing ==
    \/ OnEvent(sim_time + 1)
    \/ LoopIteration(sim_time + 1)

\* An epoch is taken: execute has been called once more.
NextEpoch == error = "none" /\ epochs < MaxEpochs /\ epochs' = epochs + 1

\* The simulators keep running: the mobility engine goes on raising its
\* events and the toy's loop goes on iterating, up to the last epoch.
SpecAdvancing == Init /\ [][NextAdvancing]_vars /\ WF_epochs(NextEpoch)

\* execute called at arbitrary times of the window and just past it, as a
\* caller with a non-monotonic clock would, for AnyClockEpochs epochs.
NextAnyClock ==
    /\ epochs < AnyClockEpochs
    /\ \/ \E t \in 0..(exploration_time + 1) : OnEvent(t)
       \/ \E t \in 0..(exploration_time + 1) : LoopIteration(t)

SpecAnyClock == Init /\ [][NextAnyClock]_vars

\* ----------------------------------------------------------- direct calls
\* The contexts get_current_context can return for a sector, and the keys a
\* caller can pass to update_reward and get_reward: those and None.
Contexts(alg, a) == [1..Len(neighbour_list(alg, a)) -> {0, 1}]
Keys(alg, a) == Contexts(alg, a) \cup {NoContext}

\* Rewards a caller passes: a connection interfered throughout, and one
\* free of interference for its one unit of time.
Rewards == {Zero, RatInt(1)}

\* One call of update_reward(a, c, r) on the algorithm object; updates is
\* here the list of all calls made so far.
CallUpdateReward(a, c, r) ==
    /\ Len(updates) < MaxCalls
    /\ \E u \in {update_reward(State, a, c, r)} :
          /\ q_value' = u.q_value
          /\ q_count' = u.q_count
          /\ updates' = u.updates
    /\ UNCHANGED <<algo, sim_time, epochs, location, serving_node,
                   associated_sector, serving_duration,
                   serving_interference_free, total_serving_duration,
                   total_serving_count, has_interference, signal_count,
                   MAB_context, MAB_backoff, exploration_rate,
                   is_exploration_over, is_full_exploration, conn_info,
                   error, hist_duration, hist_count, hist_nonzero, monotone,
                   lost_list,
                   decision>>

NextStore ==
    \E a \in Sectors : \E c \in Keys(algo, a) : \E r \in Rewards :
       CallUpdateReward(a, c, r)

\* update_reward called directly, in any order, on a new algorithm object.
SpecStore == Init /\ [][NextStore]_vars

\* Times a caller arms a timer at and durations it arms it with, and times
\* it asks is_backoff about (clock values, in units of 1 / TimeUnit).
TimerStarts == {0, 1, 200 * TimeUnit(algo)}
TimerDurations == {Zero, <<1, 2>>, RatInt(1), RatInt(25)}
CheckTimes == (0..3) \cup {k * TimeUnit(algo) : k \in {200, 210, 224, 225, 226}}

\* One call of sector.backoff(start_time, duration).
CallBackoff(a, start_time, duration) ==
    /\ \E b \in {backoff(State, a, start_time, duration)} :
          MAB_backoff' = b.MAB_backoff
    /\ UNCHANGED <<algo, sim_time, epochs, location, serving_node,
                   associated_sector, serving_duration,
                   serving_interference_free, total_serving_duration,
                   total_serving_count, has_interference, signal_count,
                   MAB_context, q_value, q_count, exploration_rate,
                   is_exploration_over, is_full_exploration, conn_info,
                   error, hist_duration, hist_count, hist_nonzero, monotone,
                   lost_list,
                   updates, decision>>

NextTimer ==
    \E a \in Sectors : \E t \in TimerStarts : \E d \in TimerDurations :
       CallBackoff(a, t, d)

\* The sectors' timers armed directly, in any order.
SpecTimer == Init /\ [][NextTimer]_vars

\* ------------------------------------------------------- float arithmetic
\* Python's float is IEEE 754 binary64: Precision significant bits, every
\* operation rounded to the nearest value, ties to the even one.  A float
\* above 0 is <<e, m>>, m its Precision bits from the leading 1 on, and its
\* value m * 2^e; FlZero is 0.0.  Only values of 0 and above occur.
Precision == 53
FlZero == <<0, <<>>>>

Zeros(k) == [i \in 1..k |-> 0]

\* A natural number in bits, the leading one first; without leading zeros.
RECURSIVE BitsOf(_)
BitsOf(k) == IF k = 0 THEN <<>> ELSE BitsOf(k \div 2) \o <<k % 2>>

Strip(b) ==
    LET ones == {i \in DOMAIN b : b[i] = 1}
    IN  IF ones = {} THEN <<>>
        ELSE SubSeq(b, CHOOSE i \in ones : \A j \in ones : i <= j, Len(b))

Rev(b) == [i \in 1..Len(b) |-> b[Len(b) + 1 - i]]

\* Sum of the bits lo..hi of two naturals given lowest bit first, with a
\* carry c coming in: <<sum bits, carry going out>>.
RECURSIVE AddLow(_, _, _, _, _)
AddLow(x, y, lo, hi, c) ==
    IF lo = hi
    THEN <<<<(x[lo] + y[lo] + c) % 2>>, (x[lo] + y[lo] + c) \div 2>>
    ELSE LET mid == (lo + hi) \div 2
             low == AddLow(x, y, lo, mid, c)
             high == AddLow(x, y, mid + 1, hi, low[2])
         IN  <<low[1] \o high[1], high[2]>>

AddBits(x, y) ==
    LET n == IF Len(x) > Len(y) THEN Len(x) ELSE Len(y)
        s == AddLow(Rev(Zeros(n - Len(x)) \o x), Rev(Zeros(n - Len(y)) \o y),
                    1, n, 0)
    IN  IF n = 0 THEN <<>> ELSE Strip(<<s[2]>> \o Rev(s[1]))

RECURSIVE MulBits(_, _)
MulBits(b, k) == IF k = 1 THEN b ELSE AddBits(b, MulBits(b, k - 1))

\* Long division of the bits lo..hi of b by n, with the remainder r of the
\* bits before them: <<quotient bits, remainder>>.
RECURSIVE DivBits(_, _, _, _, _)
DivBits(b, n, lo, hi, r) ==
    IF lo = hi
    THEN <<<<(2 * r + b[lo]) \div n>>, (2 * r + b[lo]) % n>>
    ELSE LET mid == (lo + hi) \div 2
             left == DivBits(b, n, lo, mid, r)
             right == DivBits(b, n, mid + 1, hi, left[2])
         IN  <<left[1] \o right[1], right[2]>>

\* The float nearest to b * 2^e (plus a little below the last bit of b, if
\* sticky), ties to even; b has no leading zero.
Round(b, e, sticky) ==
    IF Len(b) <= Precision
    THEN <<e - (Precision - Len(b)), b \o Zeros(Precision - Len(b))>>
    ELSE LET keep == SubSeq(b, 1, Precision)
             rest == sticky \/ \E i \in (Precision + 2)..Len(b) : b[i] = 1
             up == b[Precision + 1] = 1 /\ (rest \/ keep[Precision] = 1)
             k == IF up THEN AddBits(keep, <<1>>) ELSE keep
             e2 == e + Len(b) - Precision
         IN  IF Len(k) > Precision THEN <<e2 + 1, SubSeq(k, 1, Precision)>>
             ELSE <<e2, k>>

\* float(k) for an int k, x + y, x * k and x / n for floats x, y and ints
\* k, n (n > 0), and x < y.
FlFromInt(k) == IF k = 0 THEN FlZero ELSE Round(BitsOf(k), 0, FALSE)

FlAdd(x, y) ==
    IF x = FlZero THEN y
    ELSE IF y = FlZero THEN x
    ELSE LET e == IF x[1] < y[1] THEN x[1] ELSE y[1]
         IN  Round(AddBits(x[2] \o Zeros(x[1] - e), y[2] \o Zeros(y[1] - e)),
                   e, FALSE)

FlMulInt(x, k) ==
    IF x = FlZero \/ k = 0 THEN FlZero ELSE Round(MulBits(x[2], k), x[1], FALSE)

FlDivInt(x, n) ==
    IF x = FlZero THEN FlZero
    ELSE LET d == DivBits(x[2] \o Zeros(8), n, 1, Precision + 8, 0)
         IN  Round(Strip(d[1]), x[1] - 8, d[2] # 0)

FlLess(x, y) ==
    IF y = FlZero THEN FALSE
    ELSE IF x = FlZero THEN TRUE
    ELSE \/ x[1] < y[1]
         \/ /\ x[1] = y[1]
            /\ \E i \in 1..Precision :
                  /\ x[2][i] < y[2][i]
                  /\ \A j \in 1..(i - 1) : x[2][j] = y[2][j]

\* -------------------------------------------------- the tables in floats
\* update_reward with the table's values and the reward as floats.
update_reward_binary64(s, a, context, reward) ==
    LET old_value == IF context \in DOMAIN s.q_value[a]
                     THEN s.q_value[a][context] ELSE FlZero
        old_count == IF context \in DOMAIN s.q_count[a]
                     THEN s.q_count[a][context] ELSE 0
        value == FlAdd(FlMulInt(old_value, old_count), reward)
        count == old_count + 1
    IN  [s EXCEPT !.q_value[a] = (context :> FlDivInt(value, count)) @@ @,
                  !.q_count[a] = (context :> count) @@ @,
                  !.updates = Append(@, <<a, context, reward>>)]

get_reward_binary64(s, a, context) ==
    IF context \in DOMAIN s.q_value[a] THEN s.q_value[a][context] ELSE FlZero

\* The keys of sector a's table in the order a dict keeps them, that of
\* their first update, read from the list of the calls made so far.
RECURSIVE dict_keys(_, _, _)
dict_keys(ups, a, seen) ==
    IF ups = <<>> THEN <<>>
    ELSE LET u == Head(ups)
         IN  IF u[1] = a /\ u[2] \notin seen
             THEN <<u[2]>> \o dict_keys(Tail(ups), a, seen \cup {u[2]})
             ELSE dict_keys(Tail(ups), a, seen)

\* get_threshold: the loop adds the values to sum, from 0 on, one after
\* another, and the result is sum / len.
RECURSIVE sum_loop(_, _, _, _)
sum_loop(table, keys, i, sum) ==
    IF i > Len(keys) THEN sum
    ELSE sum_loop(table, keys, i + 1, FlAdd(sum, table[keys[i]]))

get_threshold_binary64(s, a) ==
    LET keys == dict_keys(s.updates, a, {})
    IN  IF Len(keys) = 0 THEN FlZero
        ELSE FlDivInt(sum_loop(s.q_value[a], keys, 1, FlZero), Len(keys))

to_serve_binary64(this_reward, this_threshold) ==
    this_reward = FlZero \/ FlLess(this_threshold, this_reward)

\* Rewards of ended connections: in CLMAB the quotient of the two counters
\* of a connection interfered throughout, never, or for 3 of its 10 steps;
\* in the toy the count of interference-free ticks, 0, 1 or 7.
RewardsBinary64 ==
    IF algo = "CLMAB"
    THEN {FlZero, FlDivInt(FlFromInt(1), 1), FlDivInt(FlFromInt(7), 10)}
    ELSE {FlFromInt(0), FlFromInt(1), FlFromInt(7)}

\* One call of update_reward(a, c, r) on the algorithm object, computed in
\* floats; updates is the list of all calls made so far.
CallUpdateRewardBinary64(a, c, r) ==
    /\ Len(updates) < MaxCalls
    /\ \E u \in {update_reward_binary64(State, a, c, r)} :
          /\ q_value' = u.q_value
          /\ q_count' = u.q_count
          /\ updates' = u.updates
    /\ UNCHANGED <<algo, sim_time, epochs, location, serving_node,
                   associated_sector, serving_duration,
                   serving_interference_free, total_serving_duration,
                   total_serving_count, has_interference, signal_count,
                   MAB_context, MAB_backoff, exploration_rate,
                   is_exploration_over, is_full_exploration, conn_info,
                   error, hist_duration, hist_count, hist_nonzero, monotone,
                   lost_list,
                   decision>>

NextFloat ==
    \E a \in Sectors : \E c \in Contexts(algo, a) : \E r \in RewardsBinary64 :
       CallUpdateRewardBinary64(a, c, r)

\* update_reward called directly on a new algorithm object, in floats.
SpecFloat == Init /\ [][NextFloat]_vars

\* ================================================================ claims
\* Position of a sector in the sector list.
Index(a) == CHOOSE i \in DOMAIN all_sectors : all_sectors[i] = a

\* The sector took a serve-or-backoff decision in the latest epoch.
Decided(a) == decision[a].verdict \in {"serve", "backoff"}

\* The sector lost its client in the first loop of the latest epoch.
Dropped(a) == \E i \in DOMAIN lost_list : lost_list[i][1] = a

\* The update_reward calls of the latest epoch for sector a.
UpdatesOf(a) == SelectSeq(updates, LAMBDA u : u[1] = a)

\* The sector's backoff timer is running at the time of the latest epoch.
ActiveBackoff(a) ==
    (sim_time - MAB_backoff[a][1]) * MAB_backoff[a][2][2]
        < MAB_backoff[a][2][1] * TimeUnit(algo)

Neighbours(a) ==
    {neighbour_list(algo, a)[i] : i \in DOMAIN neighbour_list(algo, a)}

\* The digit for neighbour n in the context sector a computed for its decision.
CtxBit(a, n) ==
    LET nb == neighbour_list(algo, a)
    IN  decision[a].context[CHOOSE i \in DOMAIN nb : nb[i] = n]

\* ---------------------------------------------------------------------- C1
\* C1: with non-decreasing sim_time, no sector has a serving client while its
\* backoff timer is active, and no sector serves more than one client: the
\* vehicles that point to a sector are exactly its one serving_node.
C1_NoServingInBackoff ==
    monotone =>
       \A a \in Sectors :
          /\ serving_node[a] # None => ~ActiveBackoff(a)
          /\ Cardinality({v \in Vehicles : associated_sector[v] = a}) <= 1
          /\ \A v \in Vehicles : associated_sector[v] = a <=> serving_node[a] = v

\* A sector serves again after a backoff it had armed has run out.
C1_Witness ==
    /\ monotone
    /\ \E a \in Sectors :
          /\ serving_node[a] # None
          /\ MAB_backoff[a][2] # Zero
          /\ MAB_backoff[a][1] < sim_time

\* ---------------------------------------------------------------------- C2
\* C2: a sector that decides by exploitation serves its candidate iff the
\* mean reward of its context is 0 or greater than its threshold; otherwise
\* (a non-zero reward at most the threshold) it arms backoff at sim_time and
\* does not associate.
C2_ExploitRule ==
    \A a \in Sectors :
       (Decided(a) /\ ~decision[a].explore) =>
          LET d == decision[a]
              r == get_reward(State, a, d.context)
              h == get_threshold(State, a)
          IN  IF r = Zero \/ r[1] * h[2] > h[1] * r[2]
              THEN /\ d.verdict = "serve"
                   /\ serving_node[a] = d.vehicle
                   /\ associated_sector[d.vehicle] = a
              ELSE /\ d.verdict = "backoff"
                   /\ serving_node[a] = None
                   /\ associated_sector[d.vehicle] # a
                   /\ MAB_backoff[a][1] = sim_time

\* An exploiting sector backs off on a reward equal to its threshold.
C2_Witness ==
    \E a \in Sectors :
       /\ decision[a].verdict = "backoff"
       /\ ~decision[a].explore
       /\ get_reward(State, a, decision[a].context) = get_threshold(State, a)
       /\ get_threshold(State, a) # Zero

\* ---------------------------------------------------------------------- C3
\* C3: a sector that backs off at time t gets the timer (t, D), D being the
\* average duration of its ended connections (in seconds for CLMAB, in ticks
\* for MACOLSolution).
C3_BackoffIsAverageDuration ==
    \A a \in Sectors :
       decision[a].verdict = "backoff" =>
          MAB_backoff[a] =
             <<sim_time, Rat(hist_duration[a], hist_count[a] * TimeUnit(algo))>>

\* ---------------------------------------------------------------------- C4
\* C4: with non-decreasing sim_time, the epoch at time t uses rate 1.0 when
\* t < exploration_time and epsilon when t >= exploration_time.
C4_RateByTime ==
    (monotone /\ epochs > 0) =>
       exploration_rate =
          IF sim_time < exploration_time THEN FullExploration ELSE epsilon

\* ---------------------------------------------------------------------- C5
\* C5: the step from rate 1.0 to epsilon is one-way: once an epoch has used
\* epsilon, every later epoch uses epsilon, whatever sim_time it is given.
C5_OneWay ==
    [][exploration_rate = epsilon => exploration_rate' = epsilon]_vars

\* ---------------------------------------------------------------------- C6
\* C6: in an epoch at rate 1.0 every decision is an exploring serve whatever
\* the Q-store holds, no backoff is armed, and no idle sector out of backoff
\* is left with an unclaimed vehicle in its reach.
C6_ExploreServes ==
    exploration_rate = FullExploration =>
       \A a \in Sectors :
          /\ decision[a].verdict # "backoff"
          /\ Decided(a) =>
                /\ decision[a].explore
                /\ serving_node[a] = decision[a].vehicle
          /\ (serving_node[a] = None /\ ~ActiveBackoff(a)) =>
                \A v \in Vehicles :
                   associated_sector[v] = None => ~can_reach(State, a, v)

\* A sector serves at rate 1.0 in a context whose mean reward, not zero and
\* not above the threshold, would have made it back off.
C6_Witness ==
    /\ exploration_rate = FullExploration
    /\ \E a \in Sectors :
          /\ decision[a].verdict = "serve"
          /\ serving_node[a] = decision[a].vehicle
          /\ ~to_serve(get_reward(State, a, decision[a].context),
                       get_threshold(State, a))

\* ---------------------------------------------------------------------- C7
\* The serving sector a cannot reach its client from the client's new place.
LostReach(a) == ~can_reach([location |-> location'], a, serving_node[a])

\* Time the statistics loop of on_event adds before execute runs.
Elapsed == IF algo = "CLMAB" THEN sim_time' - sim_time ELSE 0

\* Duration, and interference-free duration, of a's connection at its drop.
DropDuration(a) == serving_duration[a] + Elapsed

DropInterferenceFree(a) ==
    serving_interference_free[a]
        + (IF has_interference[serving_node[a]] THEN 0 ELSE Elapsed)

\* C7: a serving sector whose client is out of reach is dropped by the first
\* loop: it is idle when the second loop starts, its client is unclaimed, and
\* if the connection's duration is not 0 exactly one update_reward(a,
\* context at association, interference-free duration / duration) is made;
\* a serving sector whose client is in reach is left as it is.
C7_PassOneDrop ==
    [][\A a \in Sectors :
          serving_node[a] # None =>
             IF LostReach(a)
             THEN /\ \E i \in DOMAIN lost_list' :
                        lost_list'[i] = <<a, serving_node[a]>>
                  /\ serving_node'[a] = None \/ decision'[a].verdict = "serve"
                  /\ associated_sector'[serving_node[a]] # a
                  /\ DropDuration(a) # 0 =>
                        SelectSeq(updates', LAMBDA u : u[1] = a)
                           = << <<a, MAB_context[a],
                                  Rat(DropInterferenceFree(a), DropDuration(a))>> >>
             ELSE /\ serving_node'[a] = serving_node[a]
                  /\ associated_sector'[serving_node[a]] = a
                  /\ MAB_context'[a] = MAB_context[a]
                  /\ SelectSeq(updates', LAMBDA u : u[1] = a) = <<>>
                  /\ \A i \in DOMAIN lost_list' : lost_list'[i][1] # a]_vars

\* ---------------------------------------------------------------------- C8
\* C8: when the connection the first loop drops has duration 0, the sector's
\* Q-store (means, counts, contexts) stays as it was, the sector is idle
\* when the second loop starts, and no error is raised.
C8_ZeroDurationDrop ==
    [][\A a \in Sectors :
          (serving_node[a] # None /\ LostReach(a) /\ DropDuration(a) = 0) =>
             /\ q_value'[a] = q_value[a]
             /\ q_count'[a] = q_count[a]
             /\ serving_node'[a] = None \/ decision'[a].verdict = "serve"
             /\ associated_sector'[serving_node[a]] # a
             /\ error' = "none"]_vars

\* A connection of duration 0 has been dropped without a reward.
C8_Witness ==
    \E a \in Sectors :
       /\ Dropped(a)
       /\ serving_node[a] = None
       /\ serving_duration[a] = 0
       /\ UpdatesOf(a) = <<>>

\* ---------------------------------------------------------------------- C9
\* C9 as stated: every context computed in the second loop has 0 for each
\* neighbour whose connection the first loop of this epoch dropped.
C9_DroppedSeenIdle ==
    \A a \in Sectors :
       Decided(a) =>
          \A n \in Neighbours(a) : Dropped(n) => CtxBit(a, n) = 0

\* C9, amended: the first loop ends before the second starts, so a context
\* computed in the second loop has 0 for a neighbour dropped in this epoch
\* unless that neighbour, earlier in the list, has already acquired a new
\* client in this second loop.
C9_DroppedSeenIdleUnlessReacquired ==
    \A a \in Sectors :
       Decided(a) =>
          \A n \in Neighbours(a) :
             Dropped(n) =>
                (CtxBit(a, n) = 1
                    <=> (Index(n) < Index(a) /\ decision[n].verdict = "serve"))

\* A sector decides while a neighbour dropped in this epoch is still idle.
C9_Witness ==
    \E a \in Sectors :
       /\ Decided(a)
       /\ \E n \in Neighbours(a) :
             /\ Dropped(n)
             /\ serving_node[n] = None
             /\ CtxBit(a, n) = 0

\* --------------------------------------------------------------------- C10
\* Every order the second loop could take the sectors in.
Orders ==
    {p \in [DOMAIN all_sectors -> Sectors] :
        \A i, j \in DOMAIN all_sectors : p[i] = p[j] => i = j}

C11_ContextAtAssociation ==
    [][\A a \in Sectors :
          /\ decision'[a].verdict = "serve" =>
                MAB_context'[a] = decision'[a].context
          /\ (serving_node[a] # None /\ ~LostReach(a)) =>
                MAB_context'[a] = MAB_context[a]
          /\ (serving_node[a] # None /\ LostReach(a)) =>
                \A i \in DOMAIN updates' :
                   updates'[i][1] = a => updates'[i][2] = MAB_context[a]]_vars

\* A reward has been filed under a context with 0 for a neighbour that was
\* serving all through the epoch of the drop.
C11_Witness ==
    \E a \in Sectors :
       /\ UpdatesOf(a) # <<>>
       /\ \E i \in DOMAIN neighbour_list(algo, a) :
             LET n == neighbour_list(algo, a)[i]
             IN  /\ UpdatesOf(a)[1][2][i] = 0
                 /\ serving_node[n] # None
                 /\ decision[n].verdict # "serve"

\* --------------------------------------------------------------------- C12
\* The rewards passed to update_reward for sector a and key c, in call order.
RewardsOf(a, c) ==
    LET calls == SelectSeq(updates, LAMBDA u : u[1] = a /\ u[2] = c)
    IN  [i \in DOMAIN calls |-> calls[i][3]]

RECURSIVE SumOfRewards(_)
SumOfRewards(rs) ==
    IF rs = <<>> THEN Zero ELSE RatAdd(Head(rs), SumOfRewards(Tail(rs)))

C13_UnseenReadsZero ==
    \A a \in Sectors :
       \A c \in Keys(algo, a) :
          RewardsOf(a, c) = <<>> =>
             /\ get_reward(State, a, c) = Zero
             /\ c \notin DOMAIN q_value[a]
             /\ c \notin DOMAIN q_count[a]

\* A key of a sector has never been updated while another key of the sector,
\* and the same key of another sector, hold a mean that is not 0.
C13_Witness ==
    \E a, b \in Sectors :
       \E c, d \in Keys(algo, a) :
          /\ a # b
          /\ RewardsOf(a, c) = <<>>
          /\ get_reward(State, a, d) # Zero
          /\ get_reward(State, b, c) # Zero

\* --------------------------------------------------------------------- C14
\* The keys update_reward has been called with for sector a.
Stored(a) == {c \in Keys(algo, a) : RewardsOf(a, c) # <<>>}

\* The sum, over the keys in S, of the mean of the rewards passed for the key.
RECURSIVE SumOfMeans(_, _)
SumOfMeans(a, S) ==
    IF S = {} THEN Zero
    ELSE LET c == CHOOSE x \in S : TRUE
         IN  RatAdd(RatDivInt(SumOfRewards(RewardsOf(a, c)), Len(RewardsOf(a, c))),
                    SumOfMeans(a, S \ {c}))

C15_ActiveUntilExpiry ==
    \A a \in Sectors :
       LET t == MAB_backoff[a][1]
           d == MAB_backoff[a][2]
           u == TimeUnit(algo)
           \* now >= t + d, with now and t in units of 1 / u
           Expired(now) == (now - t) * d[2] >= d[1] * u
       IN  /\ \A now \in CheckTimes :
                 /\ (t <= now /\ ~Expired(now)) => is_backoff(State, a, now)
                 /\ Expired(now) => ~is_backoff(State, a, now)
                 /\ MAB_backoff[a] = <<0, Zero>> => ~is_backoff(State, a, now)
           /\ MAB_backoff[a] = <<200 * u, RatInt(25)>> =>
                 /\ is_backoff(State, a, 210 * u)
                 /\ ~is_backoff(State, a, 225 * u)
                 /\ ~is_backoff(State, a, 226 * u)

\* A timer is armed at 200 with duration 25, and another one is as
\* constructed.
C15_Witness ==
    \E a, b \in Sectors :
       /\ MAB_backoff[a] = <<200 * TimeUnit(algo), RatInt(25)>>
       /\ MAB_backoff[b] = <<0, Zero>>

\* --------------------------------------------------------------------- C16
\* The timer sector a has before the epoch is running at the epoch's time.
InBackoffAtNext(a) ==
    (sim_time' - MAB_backoff[a][1]) * MAB_backoff[a][2][2]
        < MAB_backoff[a][2][1] * TimeUnit(algo)

\* C16: a sector whose backoff timer is active at the epoch's sim_time is
\* skipped by the second loop: it takes no decision and acquires no client,
\* its timer and its stored context stay as they were, and its Q-store
\* changes only by the reward of a connection the first loop dropped.
C16_BackoffSkipped ==
    [][\A a \in Sectors :
          InBackoffAtNext(a) =>
             /\ ~Decided(a)'
             /\ serving_node'[a] # None =>
                   /\ serving_node'[a] = serving_node[a]
                   /\ ~LostReach(a)
             /\ MAB_backoff'[a] = MAB_backoff[a]
             /\ MAB_context'[a] = MAB_context[a]
             /\ (q_value'[a] # q_value[a] \/ q_count'[a] # q_count[a]) =>
                   (serving_node[a] # None /\ LostReach(a))]_vars

\* A sector in backoff has been skipped with an unclaimed vehicle in reach.
C16_Witness ==
    \E a \in Sectors :
       /\ decision[a].verdict = "in_backoff"
       /\ ActiveBackoff(a)
       /\ serving_node[a] = None
       /\ \E v \in Vehicles :
             associated_sector[v] = None /\ can_reach(State, a, v)

\* --------------------------------------------------------------------- C17
\* C17: the context of a sector has one digit per neighbour, in the order of
\* the sector's neighbour list, the i-th being 1 iff the i-th neighbour has
\* a serving client; it is the same whatever the sector itself serves; and
\* the context a decision used has these digits for the occupancy the
\* decision saw.
C17_ContextEncodesOccupancy ==
    \A a \in Sectors :
       LET nb == neighbour_list(algo, a)
           c == get_current_context(State, a)
       IN  /\ DOMAIN c = 1..Len(nb)
           /\ \A i \in 1..Len(nb) :
                 /\ c[i] \in {0, 1}
                 /\ c[i] = 1 <=> serving_node[nb[i]] # None
           /\ \A v \in Vehicles \cup {None} :
                 get_current_context([State EXCEPT !.serving_node[a] = v], a) = c
           /\ Decided(a) =>
                 /\ DOMAIN decision[a].context = 1..Len(nb)
                 /\ \A i \in 1..Len(nb) :
                       decision[a].context[i] = 1 <=> nb[i] \in decision[a].occupied

\* A serving sector's context has a 1 for one neighbour and a 0 for another,
\* and is not the same read backwards.
C17_Witness ==
    \E a \in Sectors :
       LET c == get_current_context(State, a)
       IN  /\ serving_node[a] # None
           /\ Len(c) = 2
           /\ c[1] # c[2]
           /\ Decided(a)
           /\ decision[a].context[1] # decision[a].context[2]

\* --------------------------------------------------------------------- C18
\* Time the caller adds to a new connection after execute, in the epoch of
\* the decision: the toy's loop counts the tick of the decision, on_event
\* counts before it calls execute.
TicksAfterExecute == IF algo = "CLMAB" THEN 0 ELSE 1

\* C18: a sector that decides to serve has the picked vehicle as its serving
\* client and is that vehicle's sector, stores the context it computed from
\* the occupancy before its own association, starts the connection's
\* duration and interference-free duration from 0, and keeps its backoff
\* timer as it was.
C18_ServeEffects ==
    [][\A a \in Sectors :
          decision'[a].verdict = "serve" =>
             LET d == decision'[a]
                 nb == neighbour_list(algo, a)
             IN  /\ d.vehicle \in Vehicles
                 /\ serving_node'[a] = d.vehicle
                 /\ associated_sector'[d.vehicle] = a
                 /\ MAB_context'[a] = d.context
                 /\ a \notin d.occupied
                 /\ \A i \in 1..Len(nb) :
                       d.context[i] = 1 <=> nb[i] \in d.occupied
                 /\ serving_duration'[a] = TicksAfterExecute
                 /\ serving_interference_free'[a] \in 0..TicksAfterExecute
                 /\ MAB_backoff'[a] = MAB_backoff[a]]_vars

\* A sector serves a new client in the epoch in which its connection before,
\* of a duration that earned a reward, was dropped.
C18_Witness ==
    \E a \in Sectors :
       /\ decision[a].verdict = "serve"
       /\ Dropped(a)
       /\ UpdatesOf(a) # <<>>
       /\ hist_duration[a] > TicksAfterExecute
       /\ serving_duration[a] = TicksAfterExecute

\* --------------------------------------------------------------------- C19
\* Going from s to n, no sector other than a has had its Q-store, backoff
\* timer, serving client or stored context written.
OthersKept(s, n, a) ==
    \A b \in Sectors \ {a} :
       /\ n.q_value[b] = s.q_value[b]
       /\ n.q_count[b] = s.q_count[b]
       /\ n.MAB_backoff[b] = s.MAB_backoff[b]
       /\ n.serving_node[b] = s.serving_node[b]
       /\ n.MAB_context[b] = s.MAB_context[b]

\* Going from s to n, sector a's entries other than the one for key c are kept.
OtherKeysKept(s, n, a, c) ==
    /\ DOMAIN n.q_value[a] \ {c} = DOMAIN s.q_value[a] \ {c}
    /\ DOMAIN n.q_count[a] \ {c} = DOMAIN s.q_count[a] \ {c}
    /\ \A k \in DOMAIN s.q_value[a] \ {c} :
          /\ n.q_value[a][k] = s.q_value[a][k]
          /\ n.q_count[a][k] = s.q_count[a][k]

\* Each sector's turn in the first loop of execute from its i-th sector on.
RECURSIVE FirstLoopKeeps(_, _)
FirstLoopKeeps(s, i) ==
    i > Len(all_sectors) \/
       \A n \in {check_association(s, all_sectors[i])} :
          OthersKept(s, n, all_sectors[i]) /\ FirstLoopKeeps(n, i + 1)

\* Each reward of the reward loop from the i-th entry of the lost list on.
RECURSIVE RewardLoopKeeps(_, _)
RewardLoopKeeps(s, i) ==
    i > Len(s.lost_list) \/
       \A n \in {reward_lost(s, s.lost_list[i][1])} :
          /\ OthersKept(s, n, s.lost_list[i][1])
          /\ OtherKeysKept(s, n, s.lost_list[i][1], s.MAB_context[s.lost_list[i][1]])
          /\ RewardLoopKeeps(n, i + 1)

\* Each sector's turn in the second loop from its i-th sector on, for every
\* draw.
RECURSIVE SecondLoopKeeps(_, _, _)
SecondLoopKeeps(s, i, t) ==
    i > Len(pass_order) \/
       \A x \in Options(s, pass_order[i], t) :
          \A n \in {new_association(s, pass_order[i], t, x[1], x[2])} :
             OthersKept(s, n, pass_order[i]) /\ SecondLoopKeeps(n, i + 1, t)

\* The state the next epoch's execute starts from, one unit of time on,
\* the vehicles having moved to new_location.
EpochStart(new_location) ==
    LET moved == [State EXCEPT !.location = new_location, !.lost_list = <<>>]
    IN  IF algo = "CLMAB" THEN collect_stats(moved, 1) ELSE moved

\* C19: update_reward(a, c, r) changes only the entry for c in a's own
\* table, and in the epoch that follows, wherever the vehicles have moved
\* and whatever is drawn, no sector's turn in the first loop, the reward
\* loop or the second loop writes another sector's Q-store, backoff timer,
\* serving client or stored context.
C19_OwnStateOnly ==
    /\ \A a \in Sectors :
          \A c \in Keys(algo, a) :
             \A r \in Rewards :
                \A u \in {update_reward(State, a, c, r)} :
                   OthersKept(State, u, a) /\ OtherKeysKept(State, u, a, c)
    /\ epochs < MaxEpochs =>
          \A new_location \in Moves :
             \A moved \in {EpochStart(new_location)} :
                /\ FirstLoopKeeps(moved, 1)
                /\ \A dropped \in {Pass1(moved, all_sectors, 1)} :
                      RewardLoopKeeps(dropped, 1)
                /\ \A s \in {first_loops(moved, sim_time + 1)} :
                      SecondLoopKeeps(s, 1, sim_time + 1)

\* A sector has just had a reward stored under a key that another sector
\* holds too, and the two means differ.
C19_Witness ==
    \E a, b \in Sectors :
       /\ a # b
       /\ UpdatesOf(a) # <<>>
       /\ UpdatesOf(b) = <<>>
       /\ UpdatesOf(a)[1][2] \in DOMAIN q_value[b]
       /\ q_value[b][UpdatesOf(a)[1][2]] # q_value[a][UpdatesOf(a)[1][2]]

\* --------------------------------------------------------------------- C20
\* C20: update_reward called with the context None is fatal: once such a
\* call has been made an error has ended the run, and no sector's Q-store
\* ever has an entry under None.
C20_NullContextFatal ==
    /\ (\E i \in DOMAIN updates : updates[i][2] = NoContext) => error # "none"
    /\ \A a \in Sectors :
          NoContext \notin DOMAIN q_value[a] /\ NoContext \notin DOMAIN q_count[a]

\* --------------------------------------------------------------------- C21
\* C21: when the client of a serving sector has left the environment (no
\* sector reaches it any more), the first loop of the next epoch drops it as
\* any unreachable client: the pair is put on the lost list, the sector no
\* longer serves the client and the client has no sector after the epoch,
\* the sector's ended connections count one more, and the reward loop makes
\* one update_reward under the stored context (none for a CLMAB connection
\* of duration 0); no error is raised.
C21_RemovedClientDropped ==
    [][\A a \in Sectors :
          (serving_node[a] # None /\ location'[serving_node[a]] = 0) =>
             LET v == serving_node[a]
                 ups == SelectSeq(updates', LAMBDA u : u[1] = a)
             IN  /\ \E i \in DOMAIN lost_list' : lost_list'[i] = <<a, v>>
                 /\ serving_node'[a] # v
                 /\ associated_sector'[v] = None
                 /\ hist_count'[a] = hist_count[a] + 1
                 /\ IF algo = "CLMAB" /\ DropDuration(a) = 0
                    THEN ups = <<>>
                    ELSE Len(ups) = 1 /\ ups[1][2] = MAB_context[a]
                 /\ error' = "none"]_vars

\* A client that has left the environment has been dropped with a reward,
\* and its sector serves another client already.
C21_Witness ==
    \E a \in Sectors :
       \E i \in DOMAIN lost_list :
          /\ lost_list[i][1] = a
          /\ location[lost_list[i][2]] = 0
          /\ UpdatesOf(a) # <<>>
          /\ serving_node[a] # None

\* --------------------------------------------------------------------- C22
\* The reward loop on the state d the first loop has left, the flags of the
\* exploration phase being set as given.
RewardLoopInPhase(d, over) ==
    RewardPass([d EXCEPT !.is_exploration_over = over,
                         !.is_full_exploration = ~over,
                         !.exploration_rate = IF over THEN epsilon
                                              ELSE FullExploration], 1)

\* C22: the reward loop stores the same rewards whether the exploration is
\* over or not: from every state the next epoch's first loop can leave, the
\* Q-stores and the update_reward calls are the same in both phases, and
\* every sector that dropped a connection of non-zero duration gets its one
\* update in both; only the collection of service times differs.
C22_RewardIgnoresPhase ==
    epochs < MaxEpochs =>
       \A new_location \in Moves :
          \A d \in {Pass1(EpochStart(new_location), all_sectors, 1)} :
             \A x \in {RewardLoopInPhase(d, FALSE)} :
                \A y \in {RewardLoopInPhase(d, TRUE)} :
                   /\ x.q_value = y.q_value
                   /\ x.q_count = y.q_count
                   /\ x.updates = y.updates
                   /\ \A i \in DOMAIN d.lost_list :
                         d.serving_duration[d.lost_list[i][1]] # 0 =>
                            \E j \in DOMAIN x.updates :
                               x.updates[j][1] = d.lost_list[i][1]
                   /\ x.conn_info = d.conn_info

\* A connection has been rewarded after the end of the exploration, under a
\* key that held a reward already, and its service time was collected.
C22_Witness ==
    /\ algo = "CLMAB"
    /\ UpdatesOf(conn_info_sector) # <<>>
    /\ is_exploration_over
    /\ conn_info[conn_info_sector] # <<>>
    /\ q_count[conn_info_sector][UpdatesOf(conn_info_sector)[1][2]] >= 2

\* --------------------------------------------------------------------- C23
\* In state s at time t sector a is idle, out of backoff, and every vehicle
\* in its range is claimed.
IdleWithNoCandidate(s, a, t) ==
    /\ s.error = "none"
    /\ s.serving_node[a] = None
    /\ (t - s.MAB_backoff[a][1]) * s.MAB_backoff[a][2][2]
          >= s.MAB_backoff[a][2][1] * TimeUnit(s.algo)
    /\ \A v \in Vehicles :
          (s.location[v] # 0 /\ a \in coverage[s.location[v]]) =>
             s.associated_sector[v] # None

\* The states n and s agree in every field.
SameState(n, s) ==
    /\ n.location = s.location
    /\ n.serving_node = s.serving_node
    /\ n.associated_sector = s.associated_sector
    /\ n.serving_duration = s.serving_duration
    /\ n.serving_interference_free = s.serving_interference_free
    /\ n.total_serving_duration = s.total_serving_duration
    /\ n.total_serving_count = s.total_serving_count
    /\ n.has_interference = s.has_interference
    /\ n.signal_count = s.signal_count
    /\ n.MAB_context = s.MAB_context
    /\ n.MAB_backoff = s.MAB_backoff
    /\ n.q_value = s.q_value
    /\ n.q_count = s.q_count
    /\ n.exploration_rate = s.exploration_rate
    /\ n.is_exploration_over = s.is_exploration_over
    /\ n.is_full_exploration = s.is_full_exploration
    /\ n.conn_info = s.conn_info
    /\ n.error = s.error
    /\ n.hist_duration = s.hist_duration
    /\ n.hist_count = s.hist_count
    /\ n.hist_nonzero = s.hist_nonzero
    /\ n.lost_list = s.lost_list
    /\ n.updates = s.updates
    /\ \A b \in Sectors : n.decision[b].verdict = s.decision[b].verdict

\* Each sector's turn in the second loop from its i-th sector on: a sector
\* with no candidate leaves the whole state as it is, whatever is drawn.
RECURSIVE SecondLoopIdles(_, _, _)
SecondLoopIdles(s, i, t) ==
    i > Len(pass_order) \/
       /\ IdleWithNoCandidate(s, pass_order[i], t) =>
             \A k \in Choices : \A u \in Draws :
                \A n \in {new_association(s, pass_order[i], t, k, u)} :
                   SameState(n, s)
       /\ \A x \in Options(s, pass_order[i], t) :
             \A n \in {new_association(s, pass_order[i], t, x[1], x[2])} :
                SecondLoopIdles(n, i + 1, t)

\* C23: in the second loop an idle sector out of backoff with no unclaimed
\* vehicle in its range changes nothing: no association, no backoff armed,
\* Q-store and stored context as they were, in every second loop the next
\* epoch can run.
C23_NoCandidateNoChange ==
    epochs < MaxEpochs =>
       \A new_location \in Moves :
          \A moved \in {EpochStart(new_location)} :
             \A s \in {first_loops(moved, sim_time + 1)} :
                SecondLoopIdles(s, 1, sim_time + 1)

\* A sector out of backoff has stayed idle although a vehicle is in its
\* range: the vehicle is claimed by another sector.
C23_Witness ==
    \E a \in Sectors :
       /\ serving_node[a] = None
       /\ ~ActiveBackoff(a)
       /\ decision[a].verdict = "none"
       /\ \E v \in Vehicles :
             can_reach(State, a, v) /\ associated_sector[v] \notin {None, a}
       /\ \A v \in Vehicles :
             can_reach(State, a, v) => associated_sector[v] # None

\* --------------------------------------------------------------------- C24
\* now < t2 + d2, with now and t2 in units of 1 / TimeUnit.
BeforeExpiry(now, t2, d2) == (now - t2) * d2[2] < d2[1] * TimeUnit(algo)

\* C24 as stated: whatever pair the timer holds, after backoff(t2, d2) the
\* timer is active at exactly the times now with t2 <= now < t2 + d2.
C24_ActiveExactlyInWindow ==
    \A a \in Sectors : \A t2 \in TimerStarts : \A d2 \in TimerDurations :
       \A n \in {backoff(State, a, t2, d2)} :
          \A now \in CheckTimes :
             is_backoff(n, a, now) <=> (t2 <= now /\ BeforeExpiry(now, t2, d2))

\* C24, amended: whatever pair the timer holds, backoff(t2, d2) replaces it
\* by (t2, d2) and touches no other sector's timer; nothing of the earlier
\* pair is added, and the timer is then active at exactly the times now with
\* now < t2 + d2: from t2 on until t2 + d2, and also at every time before t2.
C24_ArmOverwrites ==
    \A a \in Sectors : \A t2 \in TimerStarts : \A d2 \in TimerDurations :
       \A n \in {backoff(State, a, t2, d2)} :
          /\ n.MAB_backoff[a] = <<t2, d2>>
          /\ \A b \in Sectors \ {a} : n.MAB_backoff[b] = MAB_backoff[b]
          /\ \A now \in CheckTimes :
                is_backoff(n, a, now) <=> BeforeExpiry(now, t2, d2)

\* A timer holds a long duration from an early start: re-armed with a short
\* one, it must run out early.
C24_Witness ==
    \E a \in Sectors :
       /\ MAB_backoff[a] = <<1, RatInt(25)>>
       /\ is_backoff(State, a, 3)
       /\ \A n \in {backoff(State, a, 0, <<1, 2>>)} : ~is_backoff(n, a, 3)

\* --------------------------------------------------------------------- C25
\* C25: no vehicle is served by two sectors at the same time: in every
\* reachable state, the second loop having run with several idle sectors in
\* reach of the same unassociated vehicle included, at most one sector has
\* a given vehicle as its serving_node.
C25_OneServerPerClient ==
    \A v \in Vehicles :
       Cardinality({a \in Sectors : serving_node[a] = v}) <= 1

\* The second loop gave a vehicle to one sector while a later sector, idle,
\* out of backoff and in reach of the same vehicle, stayed idle.
C25_Witness ==
    \E a, b \in Sectors : \E v \in Vehicles :
       /\ Index(a) < Index(b)
       /\ decision[a].verdict = "serve"
       /\ decision[a].vehicle = v
       /\ serving_node[a] = v
       /\ serving_node[b] = None
       /\ ~ActiveBackoff(b)
       /\ decision[b].verdict = "none"
       /\ can_reach(State, b, v)

\* --------------------------------------------------------------------- C26
\* C26: the association pointers are symmetric at every epoch boundary: a
\* sector has a vehicle as its serving_node if and only if the vehicle has
\* the sector as its associated_sector; associate_vehicle and lost_vehicle
\* set and clear both, and the reset or the replacement of a vehicle by the
\* environment leaves no pointer set on one side only.
C26_PointersSymmetric ==
    \A a \in Sectors : \A v \in Vehicles :
       serving_node[a] = v <=> associated_sector[v] = a

\* A vehicle dropped in this epoch has been reset at its end and no sector
\* points to it, while another vehicle and its sector point to each other.
C26_Witness ==
    /\ \E i \in DOMAIN lost_list :
          \E v \in {lost_list[i][2]} :
             /\ location[v] = 0
             /\ algo = "MACOL"
             /\ signal_count[v] = 0
             /\ associated_sector[v] = None
             /\ \A a \in Sectors : serving_node[a] # v
    /\ \E a \in Sectors : \E w \in Vehicles :
          serving_node[a] = w /\ associated_sector[w] = a

\* --------------------------------------------------------------------- C27
\* The sectors' own results of the first loops: clients, counters, stored
\* contexts and Q-stores (the lost list and the call trace keep the order).
SameOutcome(x, y) ==
    /\ y.serving_node = x.serving_node
    /\ y.associated_sector = x.associated_sector
    /\ y.serving_duration = x.serving_duration
    /\ y.serving_interference_free = x.serving_interference_free
    /\ y.total_serving_duration = x.total_serving_duration
    /\ y.total_serving_count = x.total_serving_count
    /\ y.MAB_context = x.MAB_context
    /\ y.MAB_backoff = x.MAB_backoff
    /\ y.conn_info = x.conn_info
    /\ \A a \in Sectors :
          /\ DOMAIN y.q_value[a] = DOMAIN x.q_value[a]
          /\ \A c \in DOMAIN x.q_value[a] :
                /\ y.q_value[a][c] = x.q_value[a][c]
                /\ y.q_count[a][c] = x.q_count[a][c]

\* C27: within the first pass the sectors commute: wherever the vehicles
\* have moved, the loop that drops unreachable clients, followed by the
\* rewards of the dropped connections, leaves the same serving states and
\* the same Q-stores whatever the order it takes the sectors in.
C27_FirstPassCommutes ==
    epochs < MaxEpochs =>
       \A new_location \in Moves :
          \A moved \in {EpochStart(new_location)} :
             \A x \in {first_loops(moved, sim_time + 1)} :
                \A order \in Orders :
                   \A y \in {first_loops_in_order(moved, sim_time + 1, order)} :
                      SameOutcome(x, y)

\* Two sectors are about to lose their clients in the same pass, with
\* different rewards to file under the same context.
C27_Witness ==
    /\ epochs < MaxEpochs
    /\ \E new_location \in Moves :
          \A moved \in {EpochStart(new_location)} :
             \A x \in {first_loops(moved, sim_time + 1)} :
                /\ Len(x.lost_list) >= 2
                /\ Len(x.updates) >= 2
                /\ x.updates[1][1] # x.updates[2][1]
                /\ x.updates[1][2] = x.updates[2][2]
                /\ x.updates[1][3] # x.updates[2][3]

\* --------------------------------------------------------------------- C28
\* The sum of the sample counts over the contexts of a sector's Q-store.
TotalCount(a) == SumCounts(q_count[a], DOMAIN q_count[a])

\* Every stored context stays stored and its count does not go down.
CountsKept ==
    \A a \in Sectors :
       \A c \in DOMAIN q_count[a] :
          /\ c \in DOMAIN q_count'[a]
          /\ c \in DOMAIN q_value'[a]
          /\ q_count'[a][c] >= q_count[a][c]

\* C28: for every sector the sample counts of its Q-store add up to the
\* number of its connections that have ended with a duration other than 0;
\* from one epoch to the next no count decreases and no stored context is
\* removed.
C28_CountsAreEndedConnections ==
    /\ [](\A a \in Sectors : TotalCount(a) = hist_nonzero[a])
    /\ [][CountsKept]_vars

\* A sector has had connections of non-zero duration under two contexts and
\* one of duration 0, which its counts leave out.
C28_Witness ==
    \E a \in Sectors :
       /\ Cardinality(DOMAIN q_count[a]) >= 2
       /\ hist_count[a] > hist_nonzero[a]
       /\ TotalCount(a) = hist_nonzero[a]

\* --------------------------------------------------------------------- C29
\* C29: update_reward is never reached with a null context: a sector that
\* serves has stored, at the association, a context over its neighbours,
\* and every update_reward call of an epoch has such a context for its key.
C29_ContextNeverNull ==
    /\ \A a \in Sectors :
          serving_node[a] # None => MAB_context[a] \in Contexts(algo, a)
    /\ \A i \in DOMAIN updates :
          /\ updates[i][2] # NoContext
          /\ updates[i][2] \in Contexts(algo, updates[i][1])

\* A sector whose connection was rewarded in this epoch, under the context
\* stored at its association, serves again with a context stored anew.
C29_Witness ==
    \E a \in Sectors :
       /\ UpdatesOf(a) # <<>>
       /\ UpdatesOf(a)[1][2] # NoContext
       /\ decision[a].verdict = "serve"
       /\ serving_node[a] # None
       /\ MAB_context[a] = decision[a].context
       /\ MAB_context[a] # UpdatesOf(a)[1][2]

\* --------------------------------------------------------------------- C30
\* C30: a backoff decision is taken only by a sector that has completed a
\* connection: a sector whose Q-store is empty has never armed its timer, a
\* sector that backs off has a non-empty Q-store and a completed connection
\* to average over, and no run ends in a division by zero.
C30_BackoffAfterConnection ==
    /\ error = "none"
    /\ \A a \in Sectors :
          /\ DOMAIN q_value[a] = {} => MAB_backoff[a] = <<0, Zero>>
          /\ decision[a].verdict = "backoff" =>
                /\ DOMAIN q_value[a] # {}
                /\ hist_count[a] >= 1
                /\ algo = "MACOL" => total_serving_count[a] >= 1

\* A sector has just backed off, for a duration other than 0, after
\* connections it had completed.
C30_Witness ==
    \E a \in Sectors :
       /\ decision[a].verdict = "backoff"
       /\ MAB_backoff[a][1] = sim_time
       /\ MAB_backoff[a][2] # Zero
       /\ hist_count[a] >= 1
       /\ DOMAIN q_value[a] # {}

\* --------------------------------------------------------------------- C31
\* A rational between 0 and 1, both included.
InUnit(x) == ~RatLess(x, Zero) /\ ~RatLess(RatInt(1), x)

\* C31: in CLMAB the interference-free duration of a connection never
\* exceeds its duration, so every reward passed to update_reward, every
\* stored mean reward and every threshold lies between 0 and 1.
C31_RewardsInUnitInterval ==
    algo = "CLMAB" =>
       /\ \A a \in Sectors :
             /\ 0 <= serving_interference_free[a]
             /\ serving_interference_free[a] <= serving_duration[a]
             /\ \A c \in DOMAIN q_value[a] : InUnit(q_value[a][c])
             /\ InUnit(get_threshold(State, a))
       /\ \A i \in DOMAIN updates : InUnit(updates[i][3])

\* A connection interfered for a part of its time has just been rewarded
\* with a value strictly between 0 and 1, which is now a stored mean.
C31_Witness ==
    /\ algo = "CLMAB"
    /\ \E i \in DOMAIN updates :
          \E a \in {updates[i][1]} :
             /\ RatLess(Zero, updates[i][3])
             /\ RatLess(updates[i][3], RatInt(1))
             /\ 0 < serving_interference_free[a]
             /\ serving_interference_free[a] < serving_duration[a]
             /\ q_value[a][updates[i][2]] = updates[i][3]
             /\ RatLess(Zero, get_threshold(State, a))

\* --------------------------------------------------------------------- C32
\* The state a further call of execute at the same sim_time starts from,
\* the vehicles being at new_location (no time has passed to count).
SameTimeStart(new_location) ==
    LET moved == [State EXCEPT !.location = new_location, !.lost_list = <<>>]
    IN  IF algo = "CLMAB" THEN collect_stats(moved, 0) ELSE moved

\* Every way through the second loop from its i-th sector on, at time t,
\* ends with sector a skipped for its backoff and its timer as it is now.
RECURSIVE SecondLoopSkips(_, _, _, _)
SecondLoopSkips(s, i, t, a) ==
    IF i > Len(pass_order)
    THEN /\ s.decision[a].verdict = "in_backoff"
         /\ s.serving_node[a] = None
         /\ s.MAB_backoff[a] = MAB_backoff[a]
    ELSE \A x \in Options(s, pass_order[i], t) :
            \A n \in {new_association(s, pass_order[i], t, x[1], x[2])} :
               SecondLoopSkips(n, i + 1, t, a)

\* C32: a backoff timer is armed with a strictly positive duration only: a
\* sector that has just backed off is in backoff at the arming time, and a
\* further call of execute at the same sim_time skips it in the second loop
\* wherever the vehicles are and whatever is drawn.
C32_ArmedDurationPositive ==
    \A a \in Sectors :
       /\ MAB_backoff[a][2] = Zero => MAB_backoff[a] = <<0, Zero>>
       /\ decision[a].verdict = "backoff" =>
             /\ RatLess(Zero, MAB_backoff[a][2])
             /\ MAB_backoff[a][1] = sim_time
             /\ is_backoff(State, a, sim_time)
             /\ serving_node[a] = None
             /\ \A new_location \in Moves :
                   \A moved \in {SameTimeStart(new_location)} :
                      \A s \in {first_loops(moved, sim_time)} :
                         SecondLoopSkips(s, 1, sim_time, a)

\* A call of execute at the sim_time of the one before has skipped a sector
\* that the one before had put in backoff, an unclaimed vehicle in reach.
C32_Witness ==
    \E a \in Sectors :
       /\ decision[a].verdict = "in_backoff"
       /\ MAB_backoff[a][1] = sim_time
       /\ RatLess(Zero, MAB_backoff[a][2])
       /\ serving_node[a] = None
       /\ \E v \in Vehicles :
             associated_sector[v] = None /\ can_reach(State, a, v)

\* --------------------------------------------------------------------- C33
\* The contexts of the epoch's update_reward calls for sector a.
UpdatedKeys(a) ==
    {updates[i][2] : i \in {j \in DOMAIN updates : updates[j][1] = a}}

\* Reading the reward of any key, stored or not, leaves both tables of
\* every sector as they are, and an unseen key reads 0.
ReadsKeepStore ==
    \A a \in Sectors :
       \A c \in Keys(algo, a) :
          \A n \in {exploit_reads(State, a, c)} :
             /\ \A b \in Sectors :
                   /\ DOMAIN n.q_value[b] = DOMAIN q_value[b]
                   /\ DOMAIN n.q_count[b] = DOMAIN q_count[b]
                   /\ \A k \in DOMAIN q_value[b] :
                         /\ n.q_value[b][k] = q_value[b][k]
                         /\ n.q_count[b][k] = q_count[b][k]
                   /\ get_threshold(n, b) = get_threshold(State, b)
             /\ c \notin DOMAIN q_value[a] => get_reward(State, a, c) = Zero

\* Over an epoch a sector's tables change by the epoch's update_reward
\* calls only: the decisions of the second loop enter no key and change no
\* value, and with no such call the threshold is the same.
StoreChangesByUpdatesOnly ==
    \A a \in Sectors :
       /\ DOMAIN q_value'[a] = DOMAIN q_value[a] \cup UpdatedKeys(a)'
       /\ DOMAIN q_count'[a] = DOMAIN q_value'[a]
       /\ \A k \in DOMAIN q_value[a] \ UpdatedKeys(a)' :
             /\ q_value'[a][k] = q_value[a][k]
             /\ q_count'[a][k] = q_count[a][k]
       /\ UpdatedKeys(a)' = {} =>
             get_threshold([q_value |-> q_value'], a)
                = get_threshold([q_value |-> q_value], a)

\* C33: get_reward, get_threshold and get_current_context never modify the
\* Q-store: get_reward of an unseen context returns 0 and enters nothing,
\* so that an exploit decision leaves the stored contexts and the threshold
\* as they were.
C33_ReadsChangeNothing ==
    /\ []ReadsKeepStore
    /\ [][StoreChangesByUpdatesOnly]_vars

\* A sector with a non-empty table has taken an exploit decision in a
\* context it has not stored, and the context is still not stored.
C33_Witness ==
    \E a \in Sectors :
       /\ Decided(a)
       /\ ~decision[a].explore
       /\ UpdatesOf(a) = <<>>
       /\ DOMAIN q_value[a] # {}
       /\ RatLess(Zero, get_threshold(State, a))
       /\ decision[a].context \notin DOMAIN q_value[a]

\* --------------------------------------------------------------------- C34
\* The contexts stored for sector a with a mean reward of exactly 0.
ZeroMean(a) == {c \in DOMAIN q_value[a] : q_value[a][c] = Zero}

\* C34: a stored context whose mean reward is exactly 0 is treated as an
\* unseen one: it reads 0 like a context never stored, the exploit verdict
\* on it is to serve whatever the threshold and the number of samples, and a
\* sector that exploits in such a context serves and does not back off.
C34_ZeroMeanServes ==
    \A a \in Sectors :
       /\ \A c \in ZeroMean(a) :
             /\ q_count[a][c] >= 1
             /\ get_reward(State, a, c) = Zero
             /\ \A u \in Keys(algo, a) \ DOMAIN q_value[a] :
                   get_reward(State, a, u) = get_reward(State, a, c)
             /\ to_serve(get_reward(State, a, c), get_threshold(State, a))
       /\ (Decided(a) /\ ~decision[a].explore
              /\ decision[a].context \in ZeroMean(a)) =>
             /\ decision[a].verdict = "serve"
             /\ serving_node[a] = decision[a].vehicle
             /\ MAB_backoff[a][1] # sim_time \/ MAB_backoff[a] = <<0, Zero>>

\* A sector whose threshold is above 0 has exploited in a stored context of
\* mean reward 0, and serves.
C34_Witness ==
    \E a \in Sectors :
       /\ Decided(a)
       /\ ~decision[a].explore
       /\ decision[a].context \in ZeroMean(a)
       /\ RatLess(Zero, get_threshold(State, a))
       /\ decision[a].verdict = "serve"

\* --------------------------------------------------------------------- C35
\* Sector a's table is not empty and holds one and the same mean, other
\* than 0, under every stored context.
EqualMeans(a) ==
    /\ DOMAIN q_value[a] # {}
    /\ \A c, d \in DOMAIN q_value[a] :
          q_value[a][c] = q_value[a][d] /\ q_value[a][c] # FlZero

\* C35: a sector whose stored means are all equal and not 0 backs off, in
\* the exploit branch, in every stored context: the reward read equals the
\* threshold and serving needs a reward above it.
C35_EqualMeansBackOff ==
    \A a \in Sectors :
       EqualMeans(a) =>
          \A c \in DOMAIN q_value[a] :
             ~to_serve_binary64(get_reward_binary64(State, a, c),
                                get_threshold_binary64(State, a))

\* --------------------------------------------------------------------- C36
\* a * k for a natural number k, by repeated addition.
RECURSIVE Times(_, _)
Times(a, k) == IF k = 0 THEN 0 ELSE a + Times(a, k - 1)

\* A timer <<start_time, duration>> is running at time t, in steps of which
\* unit make one unit of the duration: t - start_time < duration.
Running(timer, t, unit) ==
    Times(t - timer[1], timer[2][2]) < Times(timer[2][1], unit)

\* An epoch arms sector a's timer only if the timer it had is not running
\* at the epoch's time, and skips the sector for its backoff only if it is.
TimerKeptWhileRunning ==
    \A a \in Sectors :
       /\ (MAB_backoff'[a] # MAB_backoff[a] \/ decision'[a].verdict = "backoff")
             => ~Running(MAB_backoff[a], sim_time', TimeUnit(algo))
       /\ decision'[a].verdict = "in_backoff"
             => Running(MAB_backoff[a], sim_time', TimeUnit(algo))

\* The sectors in backoff at the time of the latest epoch, and those whose
\* timer is not running any more at the time of the last epoch modelled.
InBackoff ==
    [a \in Sectors |-> Running(MAB_backoff[a], sim_time, TimeUnit(algo))]

EndsInTime ==
    [a \in Sectors |-> ~Running(MAB_backoff[a], MaxEpochs, TimeUnit(algo))]

\* C36: backoff always ends.  A running timer is not armed again, and a
\* sector is skipped for its backoff only while its timer runs; so, with
\* strictly advancing epoch times, for a timer armed at time s that is
\* running (its end within the epochs modelled) there comes an epoch at
\* which it runs no more and the second loop does not skip the sector for
\* it: no timer keeps a sector in backoff for ever.
C36_BackoffEnds ==
    /\ [][TimerKeptWhileRunning]_vars
    /\ \A a \in Sectors : \A s \in 0..MaxEpochs :
          (InBackoff[a] /\ EndsInTime[a] /\ MAB_backoff[a][1] = s)
             ~> /\ decision[a].verdict # "in_backoff"
                /\ ~InBackoff[a] \/ MAB_backoff[a][1] # s

\* A sector whose timer, armed at an earlier epoch, has run out is decided
\* again by the second loop.
C36_Witness ==
    \E a \in Sectors :
       /\ RatLess(Zero, MAB_backoff[a][2])
       /\ MAB_backoff[a][1] < sim_time
       /\ ~Running(MAB_backoff[a], sim_time, TimeUnit(algo))
       /\ Decided(a)

====
